---- MODULE Spec2Model ----
(***************************************************************************)
(* ZHA binary sensors (homeassistant/components/zha/binary_sensor.py).     *)
(*                                                                         *)
(* Two state machines share this module:                                   *)
(*   Spec          one BinarySensor entity bound to its channel's cluster: *)
(*                 construction, async_added_to_hass, attribute reports     *)
(*                 reaching async_set_state, and the is_on / device_class   *)
(*                 properties read by async_write_ha_state;                 *)
(*   SpecRegistry  the match rules the decorators of the file register and  *)
(*                 their resolution for a discovered device.                *)
(***************************************************************************)
EXTENDS Integers, Sequences, FiniteSets, TLC

VARIABLES
    cls,          \* the entity class of the sensor (BinarySensor subclass)
    subscribed,   \* async_added_to_hass has connected async_set_state
    cache,        \* self._channel.cluster: attribute name -> cached value
    ha_writes,    \* the states async_write_ha_state handed to the host
    handled,      \* the attr_name of every async_set_state call, in order
    updates,      \* attribute reports the cluster has stored so far
    registry,     \* ZHA_ENTITIES: the match rules registered so far, in order
    device,       \* the device under discovery (registry)
    resolved      \* the outcome of resolving device (registry)

vars ==
    <<cls, subscribed, cache, ha_writes, handled, updates, registry, device,
      resolved>>

(***************************************************************************)
(* Bounds                                                                  *)
(***************************************************************************)
\* attribute reports the cluster receives in one behaviour
MaxUpdates == 3
\* raw attribute values range over -MaxRaw..MaxRaw
MaxRaw == 4
\* clusters one discovered device exposes
MaxClusters == 2

(***************************************************************************)
(* Python values                                                           *)
(***************************************************************************)
PyNone == [type |-> "NoneType", int |-> 0]
PyInt(n) == [type |-> "int", int |-> n]

\* the outcome of a call: a returned value, or the exception it raised
Return(v) == [raised |-> "", value |-> v]
Raise(e) == [raised |-> e, value |-> FALSE]

\* Python's a & b on integers, b >= 0 (two's complement for negative a)
RECURSIVE BitAnd(_, _)
BitAnd(a, b) ==
    IF b = 0 THEN 0
    ELSE (a % 2) * (b % 2) + 2 * BitAnd(a \div 2, b \div 2)

Last(s) == s[Len(s)]

(***************************************************************************)
(* Module constants and class attributes                                   *)
(***************************************************************************)
CHANNEL_ACCELEROMETER == "accelerometer"
CHANNEL_BINARY_INPUT == "binary_input"
CHANNEL_OCCUPANCY == "occupancy"
CHANNEL_ON_OFF == "on_off"
CHANNEL_ZONE == "ias_zone"

\* the table with the entries of moisture and gas exchanged
CLASS_MAPPING_swapped ==
    (13 :> "motion") @@ (21 :> "opening") @@ (40 :> "smoke")
    @@ (42 :> "gas") @@ (43 :> "moisture") @@ (45 :> "vibration")

\* Zigbee Cluster Library Zone Type to Home Assistant device class
CLASS_MAPPING ==
    (13 :> "motion")        \* 0x000D
    @@ (21 :> "opening")    \* 0x0015
    @@ (40 :> "smoke")      \* 0x0028
    @@ (42 :> "moisture")   \* 0x002A
    @@ (43 :> "gas")        \* 0x002B
    @@ (45 :> "vibration")  \* 0x002D

\* dict.get(key): the entry, or None ("None") for a key the dict lacks,
\* the key None included
dict_get(d, key) ==
    IF key.type = "int" /\ key.int \in DOMAIN d THEN d[key.int] ELSE "None"

\* SENSOR_ATTR of each entity class
SENSOR_ATTR(c) ==
    CASE c = "Accelerometer" -> "acceleration"
      [] c = "Occupancy" -> "occupancy"
      [] c = "Opening" -> "on_off"
      [] c = "BinaryInput" -> "present_value"
      [] c = "Motion" -> "on_off"
      [] c = "IASZone" -> "zone_status"
      [] c = "FrostLock" -> "frost_lock"
      [] c = "ReplaceFilter" -> "replace_filter"
      [] c = "AqaraPetFeederErrorDetected" -> "error_detected"
      [] c = "XiaomiPlugConsumerConnected" -> "consumer_connected"
      [] c = "AqaraThermostatWindowOpen" -> "window_open"
      [] c = "AqaraThermostatValveAlarm" -> "valve_alarm"
      [] c = "AqaraThermostatCalibrated" -> "calibrated"
      [] c = "AqaraThermostatExternalSensor" -> "sensor"
      [] c = "AqaraLinkageAlarmState" -> "linkage_alarm_state"

\* _attr_device_class of each entity class ("None" where the class sets none)
attr_device_class(c) ==
    CASE c = "Accelerometer" -> "moving"
      [] c = "Occupancy" -> "occupancy"
      [] c = "Opening" -> "opening"
      [] c = "Motion" -> "motion"
      [] c = "FrostLock" -> "lock"
      [] c = "ReplaceFilter" -> "problem"
      [] c = "AqaraPetFeederErrorDetected" -> "problem"
      [] c = "XiaomiPlugConsumerConnected" -> "plug"
      [] c = "AqaraThermostatWindowOpen" -> "window"
      [] c = "AqaraThermostatValveAlarm" -> "problem"
      [] c = "AqaraLinkageAlarmState" -> "smoke"
      [] OTHER -> "None"

\* _attr_entity_category of each entity class
attr_entity_category(c) ==
    IF c \in {"AqaraThermostatCalibrated", "AqaraThermostatExternalSensor"}
    THEN "diagnostic"
    ELSE "None"

\* id_suffix of each entity class ("" where the class passes none)
id_suffix(c) ==
    CASE c = "FrostLock" -> "frost_lock"
      [] c = "ReplaceFilter" -> "replace_filter"
      [] c = "AqaraPetFeederErrorDetected" -> "error_detected"
      [] c = "XiaomiPlugConsumerConnected" -> "consumer_connected"
      [] c = "AqaraThermostatWindowOpen" -> "window_open"
      [] c = "AqaraThermostatValveAlarm" -> "valve_alarm"
      [] c = "AqaraThermostatCalibrated" -> "calibrated"
      [] c = "AqaraThermostatExternalSensor" -> "sensor"
      [] c = "AqaraLinkageAlarmState" -> "linkage_alarm_state"
      [] OTHER -> ""

(***************************************************************************)
(* The sensor entity                                                       *)
(***************************************************************************)
\* the entity classes the sensor machine instantiates: one that inherits
\* parse and device_class, and the one that overrides both
SensorClasses == {"Occupancy", "IASZone"}

\* the attributes of the bound cluster
AttrNames == {"occupancy", "zone_status", "zone_type"}

\* the values an attribute report carries
RawValues == (-MaxRaw) .. MaxRaw
ZoneTypes == DOMAIN CLASS_MAPPING \cup {0, 39321}   \* 0x9999: not in the table
AttrValues(a) == IF a = "zone_type" THEN ZoneTypes ELSE RawValues

\* cluster.get(attr): the cached value, None while none was reported
cluster_get(cluster, attr) == cluster[attr]

\* BinarySensor.parse
BinarySensor_parse(value) ==
    CASE value.type = "int" -> Return(value.int # 0)
      [] value.type = "NoneType" -> Return(FALSE)

\* IASZone.parse without the mask
IASZone_parse_unmasked(value) ==
    IF value.type # "int" THEN Raise("TypeError") ELSE BinarySensor_parse(value)

\* IASZone.parse: use only bit 0 and 1 for alarm state
IASZone_parse(value) ==
    IF value.type # "int" THEN Raise("TypeError")
    ELSE BinarySensor_parse(PyInt(BitAnd(value.int, 3)))

\* self.parse, by the class of self
parse(c, value) ==
    IF c = "IASZone" THEN IASZone_parse(value) ELSE BinarySensor_parse(value)

\* is_on that reads zone_type in place of SENSOR_ATTR
is_on_zone_type(c, cluster) ==
    LET raw_state == cluster_get(cluster, "zone_type")
    IN  IF raw_state = PyNone THEN Return(FALSE) ELSE parse(c, raw_state)

\* is_on without the test for a missing value
is_on_unguarded(c, cluster) == parse(c, cluster_get(cluster, SENSOR_ATTR(c)))

\* BinarySensor.is_on, read from the cluster the sensor is bound to
is_on(c, cluster) ==
    LET raw_state == cluster_get(cluster, SENSOR_ATTR(c))
    IN  IF raw_state = PyNone THEN Return(FALSE) ELSE parse(c, raw_state)

\* IASZone.device_class; the other classes report _attr_device_class
device_class(c, cluster) ==
    IF c = "IASZone"
    THEN dict_get(CLASS_MAPPING, cluster_get(cluster, "zone_type"))
    ELSE attr_device_class(c)

\* Entity.async_write_ha_state: the host reads the entity's properties and
\* records the state
async_write_ha_state(c, cluster) ==
    Append(ha_writes,
           [state |-> is_on(c, cluster),
            device_class |-> device_class(c, cluster)])

\* async_set_state that writes a state only when it differs from the last
async_set_state_dedup(attr_id, attr_name, value) ==
    /\ ha_writes' =
           IF ha_writes # <<>> /\ Last(ha_writes).state = is_on(cls, cache')
           THEN ha_writes
           ELSE async_write_ha_state(cls, cache')
    /\ handled' = Append(handled, attr_name)

\* async_set_state that takes the state from the value of the update
async_set_state_from_value(attr_id, attr_name, value) ==
    /\ ha_writes' =
           Append(ha_writes,
                  [state |-> parse(cls, value),
                   device_class |-> device_class(cls, cache')])
    /\ handled' = Append(handled, attr_name)

\* BinarySensor.async_set_state
async_set_state(attr_id, attr_name, value) ==
    /\ ha_writes' = async_write_ha_state(cls, cache')
    /\ handled' = Append(handled, attr_name)

\* BinarySensor.async_added_to_hass
async_added_to_hass ==
    /\ ~subscribed
    /\ subscribed' = TRUE
    /\ UNCHANGED <<cls, cache, ha_writes, handled, updates, registry, device,
                   resolved>>

\* The channel: the cluster stores a reported attribute and the channel
\* sends SIGNAL_ATTR_UPDATED (attr_id, attr_name, value) to what is connected
attribute_updated(attr_name, value) ==
    /\ cache' = [cache EXCEPT ![attr_name] = value]
    /\ updates' = updates + 1
    /\ IF subscribed
       THEN async_set_state(attr_name, attr_name, value)
       ELSE UNCHANGED <<ha_writes, handled>>
    /\ UNCHANGED <<cls, subscribed, registry, device, resolved>>

(***************************************************************************)
(* The match rules of the file                                             *)
(***************************************************************************)
\* Python strings that are searched are sequences of characters
Str(chars) == [type |-> "str", chars |-> chars]
NoModel == [type |-> "NoneType", chars |-> <<>>]
IntModel == [type |-> "int", chars |-> <<>>]

\* the model names the decorators list
SML001 == <<"S", "M", "L", "0", "0", "1">>
SML002 == <<"S", "M", "L", "0", "0", "2">>
aqara_feeder_acn001 == <<"a", "q", "a", "r", "a", ".", "f", "e", "e", "d", "e", "r", ".", "a", "c", "n", "0", "0", "1">>
lumi_plug_mmeu01 == <<"l", "u", "m", "i", ".", "p", "l", "u", "g", ".", "m", "m", "e", "u", "0", "1">>
lumi_plug_maeu01 == <<"l", "u", "m", "i", ".", "p", "l", "u", "g", ".", "m", "a", "e", "u", "0", "1">>
lumi_airrtc_agl001 == <<"l", "u", "m", "i", ".", "a", "i", "r", "r", "t", "c", ".", "a", "g", "l", "0", "0", "1">>
lumi_sensor_smoke_acn03 == <<"l", "u", "m", "i", ".", "s", "e", "n", "s", "o", "r", "_", "s", "m", "o", "k", "e", ".", "a", "c", "n", "0", "3">>
motion == <<"m", "o", "t", "i", "o", "n">>

\* str.find(sub): the lowest index where sub starts, -1 when there is none
find(s, sub) ==
    LET hits == {i \in 0 .. (Len(s) - Len(sub)) :
                    SubSeq(s, i + 1, i + Len(sub)) = sub}
    IN  IF hits = {} THEN -1
        ELSE CHOOSE i \in hits : \A j \in hits : i <= j

\* the models predicate without the isinstance test: model.find on a value
\* that is no string raises
Motion_models_unguarded(model) ==
    IF model.type # "str" THEN Raise("AttributeError")
    ELSE Return(find(model.chars, motion) # -1)

\* the models predicate of Motion's IKEA rule:
\* isinstance(model, str) and model is not None and model.find("motion") != -1
Motion_models(model) ==
    IF model.type # "str" THEN Return(FALSE)
    ELSE IF model = NoModel THEN Return(FALSE)
    ELSE Return(find(model.chars, motion) # -1)

\* one decorator application: strategy(channel_names, manufacturers, models)
\* applied to an entity class; an empty set is a filter that was not given
MatchRule(strategy, channel_names, manufacturers, models, callable, entity) ==
    [strategy |-> strategy, channel_names |-> channel_names,
     manufacturers |-> manufacturers, models |-> models,
     callable |-> callable, entity |-> entity]

Accelerometer_match ==
    MatchRule("MULTI_MATCH", {CHANNEL_ACCELEROMETER}, {}, {}, FALSE,
              "Accelerometer")
Occupancy_match ==
    MatchRule("MULTI_MATCH", {CHANNEL_OCCUPANCY}, {}, {}, FALSE, "Occupancy")
Opening_match ==
    MatchRule("STRICT_MATCH", {CHANNEL_ON_OFF}, {}, {}, FALSE, "Opening")
BinaryInput_match ==
    MatchRule("MULTI_MATCH", {CHANNEL_BINARY_INPUT}, {}, {}, FALSE,
              "BinaryInput")
Motion_match_Philips ==
    MatchRule("STRICT_MATCH", {CHANNEL_ON_OFF}, {"Philips"},
              {SML001, SML002}, FALSE, "Motion")
Motion_match_IKEA ==
    MatchRule("STRICT_MATCH", {CHANNEL_ON_OFF}, {"IKEA of Sweden"}, {}, TRUE,
              "Motion")
IASZone_match ==
    MatchRule("MULTI_MATCH", {CHANNEL_ZONE}, {}, {}, FALSE, "IASZone")
FrostLock_match ==
    MatchRule("MULTI_MATCH", {"tuya_manufacturer"}, {"_TZE200_htnnfasr"}, {},
              FALSE, "FrostLock")
ReplaceFilter_match ==
    MatchRule("MULTI_MATCH", {"ikea_airpurifier"}, {}, {}, FALSE,
              "ReplaceFilter")
AqaraPetFeederErrorDetected_match ==
    MatchRule("MULTI_MATCH", {"opple_cluster"}, {}, {aqara_feeder_acn001},
              FALSE, "AqaraPetFeederErrorDetected")
XiaomiPlugConsumerConnected_match ==
    MatchRule("MULTI_MATCH", {"opple_cluster"}, {},
              {lumi_plug_mmeu01, lumi_plug_maeu01}, FALSE,
              "XiaomiPlugConsumerConnected")
AqaraThermostatWindowOpen_match ==
    MatchRule("MULTI_MATCH", {"opple_cluster"}, {}, {lumi_airrtc_agl001},
              FALSE, "AqaraThermostatWindowOpen")
\* the thermostat's valve alarm registered for the model of the plug
AqaraThermostatValveAlarm_match_plug ==
    MatchRule("MULTI_MATCH", {"opple_cluster"}, {}, {lumi_plug_mmeu01},
              FALSE, "AqaraThermostatValveAlarm")

AqaraThermostatValveAlarm_match ==
    MatchRule("MULTI_MATCH", {"opple_cluster"}, {}, {lumi_airrtc_agl001},
              FALSE, "AqaraThermostatValveAlarm")
AqaraThermostatCalibrated_match ==
    MatchRule("CONFIG_DIAGNOSTIC_MATCH", {"opple_cluster"}, {},
              {lumi_airrtc_agl001}, FALSE, "AqaraThermostatCalibrated")
AqaraThermostatExternalSensor_match ==
    MatchRule("CONFIG_DIAGNOSTIC_MATCH", {"opple_cluster"}, {},
              {lumi_airrtc_agl001}, FALSE, "AqaraThermostatExternalSensor")
AqaraLinkageAlarmState_match ==
    MatchRule("MULTI_MATCH", {"opple_cluster"}, {}, {lumi_sensor_smoke_acn03},
              FALSE, "AqaraLinkageAlarmState")

\* the decorators with Opening below Motion in the file: registered last
Decorators_OpeningLast ==
    <<Accelerometer_match, Occupancy_match, BinaryInput_match,
      Motion_match_Philips, Motion_match_IKEA, IASZone_match, FrostLock_match,
      ReplaceFilter_match, AqaraPetFeederErrorDetected_match,
      XiaomiPlugConsumerConnected_match, AqaraThermostatWindowOpen_match,
      AqaraThermostatValveAlarm_match, AqaraThermostatCalibrated_match,
      AqaraThermostatExternalSensor_match, AqaraLinkageAlarmState_match,
      Opening_match>>

\* the decorator applications in the order the import of the module runs
\* them: top to bottom, the decorators stacked on one class bottom-up
Decorators ==
    <<Accelerometer_match, Occupancy_match, Opening_match, BinaryInput_match,
      Motion_match_Philips, Motion_match_IKEA, IASZone_match, FrostLock_match,
      ReplaceFilter_match, AqaraPetFeederErrorDetected_match,
      XiaomiPlugConsumerConnected_match, AqaraThermostatWindowOpen_match,
      AqaraThermostatValveAlarm_match, AqaraThermostatCalibrated_match,
      AqaraThermostatExternalSensor_match, AqaraLinkageAlarmState_match>>

(***************************************************************************)
(* ZHA_ENTITIES: registration and resolution                               *)
(***************************************************************************)
\* the decorator call: the rule is added to the registry
register(rule) == Append(registry, rule)

\* model names of devices beside the ones the decorators list
TRADFRI_motion_sensor == <<"T", "R", "A", "D", "F", "R", "I", " ", "m", "o", "t", "i", "o", "n", " ", "s", "e", "n", "s", "o", "r">>
TRADFRI_Motion_sensor == <<"T", "R", "A", "D", "F", "R", "I", " ", "M", "o", "t", "i", "o", "n", " ", "s", "e", "n", "s", "o", "r">>
TRADFRI_remote == <<"T", "R", "A", "D", "F", "R", "I", " ", "r", "e", "m", "o", "t", "e">>

\* the devices a discovery can meet
ChannelNames ==
    {CHANNEL_ACCELEROMETER, CHANNEL_BINARY_INPUT, CHANNEL_OCCUPANCY,
     CHANNEL_ON_OFF, CHANNEL_ZONE, "tuya_manufacturer", "ikea_airpurifier",
     "opple_cluster", "basic"}
Manufacturers == {"Philips", "IKEA of Sweden", "_TZE200_htnnfasr", "LUMI"}
Models ==
    {NoModel, IntModel}
    \cup {Str(m) : m \in {SML001, SML002, aqara_feeder_acn001,
                          lumi_plug_mmeu01, lumi_airrtc_agl001,
                          lumi_sensor_smoke_acn03, TRADFRI_motion_sensor,
                          TRADFRI_Motion_sensor, TRADFRI_remote, motion}}
ClusterLists ==
    {cs \in UNION {[1 .. n -> ChannelNames] : n \in 0 .. MaxClusters} :
        \A i, j \in DOMAIN cs : i # j => cs[i] # cs[j]}
Devices ==
    [clusters : ClusterLists, manufacturer : Manufacturers, model : Models]

NoDevice == [clusters |-> <<>>, manufacturer |-> "", model |-> NoModel]
NotResolved == [done |-> FALSE, raised |-> "", entities |-> <<>>]

\* a rule matches iff every filter it declares is satisfied
matched(rule, dev) ==
    LET manufacturer_ok ==
            rule.manufacturers = {} \/ dev.manufacturer \in rule.manufacturers
        model_ok ==
            IF rule.callable THEN Motion_models(dev.model)
            ELSE Return(rule.models = {}
                        \/ (dev.model.type = "str"
                            /\ dev.model.chars \in rule.models))
    IN  IF model_ok.raised # "" THEN model_ok
        ELSE Return(manufacturer_ok /\ model_ok.value)

\* the strict rule of a cluster: the rules registered under it are tried
\* most recently registered first, and the first that matches is taken
\* (index 0: none matches)
RECURSIVE strict_select(_, _, _, _)
strict_select(reg, cluster, dev, i) ==
    IF i = 0 THEN [raised |-> "", index |-> 0]
    ELSE IF reg[i].strategy = "STRICT_MATCH" /\ cluster \in reg[i].channel_names
    THEN LET m == matched(reg[i], dev)
         IN  IF m.raised # "" THEN [raised |-> m.raised, index |-> 0]
             ELSE IF m.value THEN [raised |-> "", index |-> i]
             ELSE strict_select(reg, cluster, dev, i - 1)
    ELSE strict_select(reg, cluster, dev, i - 1)

\* the descriptor an applying rule contributes
descriptor(rule) ==
    [entity |-> rule.entity,
     id_suffix |-> id_suffix(rule.entity),
     attribute |-> SENSOR_ATTR(rule.entity),
     device_class |-> attr_device_class(rule.entity),
     entity_category |->
         IF rule.strategy = "CONFIG_DIAGNOSTIC_MATCH" THEN "diagnostic"
         ELSE attr_entity_category(rule.entity)]

\* the descriptors of one cluster, in registration order from rule i on:
\* the selected strict rule, and every multipass and config-diagnostic rule
\* that matches
RECURSIVE resolve_cluster(_, _, _, _, _)
resolve_cluster(reg, cluster, dev, strict, i) ==
    IF i > Len(reg) THEN [raised |-> "", entities |-> <<>>]
    ELSE LET rest == resolve_cluster(reg, cluster, dev, strict, i + 1)
             m == matched(reg[i], dev)
         IN  IF cluster \notin reg[i].channel_names THEN rest
             ELSE IF reg[i].strategy = "STRICT_MATCH"
             THEN IF i = strict
                  THEN [rest EXCEPT !.entities = <<descriptor(reg[i])>> \o @]
                  ELSE rest
             ELSE IF m.raised # "" THEN [raised |-> m.raised, entities |-> <<>>]
             ELSE IF rest.raised # "" THEN rest
             ELSE IF m.value
             THEN [rest EXCEPT !.entities = <<descriptor(reg[i])>> \o @]
             ELSE rest

\* resolve(device): the descriptors of the clusters the device exposes, in
\* discovery order, from cluster k on
RECURSIVE resolve(_, _, _)
resolve(reg, dev, k) ==
    IF k > Len(dev.clusters) THEN [raised |-> "", entities |-> <<>>]
    ELSE LET strict == strict_select(reg, dev.clusters[k], dev, Len(reg))
             here == resolve_cluster(reg, dev.clusters[k], dev, strict.index, 1)
             rest == resolve(reg, dev, k + 1)
         IN  IF strict.raised # ""
             THEN [raised |-> strict.raised, entities |-> <<>>]
             ELSE IF here.raised # "" THEN here
             ELSE IF rest.raised # "" THEN rest
             ELSE [raised |-> "", entities |-> here.entities \o rest.entities]

(***************************************************************************)
(* The sensor machine                                                      *)
(***************************************************************************)
\* BinarySensor.__init__: the entity is bound to channels[0]; nothing was
\* reported to the cluster yet and nothing is connected
Init ==
    /\ cls \in SensorClasses
    /\ subscribed = FALSE
    /\ cache = [a \in AttrNames |-> PyNone]
    /\ ha_writes = <<>>
    /\ handled = <<>>
    /\ updates = 0
    /\ registry = <<>>
    /\ device = NoDevice
    /\ resolved = NotResolved

AddedToHass == async_added_to_hass

AttributeUpdated ==
    /\ updates < MaxUpdates
    /\ \E attr_name \in AttrNames :
           \E v \in AttrValues(attr_name) :
               attribute_updated(attr_name, PyInt(v))

Next == AddedToHass \/ AttributeUpdated

Spec == Init /\ [][Next]_vars

(***************************************************************************)
(* The registry machine                                                    *)
(***************************************************************************)
InitRegistry ==
    /\ cls = "Occupancy"
    /\ subscribed = FALSE
    /\ cache = [a \in AttrNames |-> PyNone]
    /\ ha_writes = <<>>
    /\ handled = <<>>
    /\ updates = 0
    /\ registry = <<>>
    /\ device = NoDevice
    /\ resolved = NotResolved

\* the import of the module runs the next decorator
Register ==
    /\ Len(registry) < Len(Decorators)
    /\ registry' = register(Decorators[Len(registry) + 1])
    /\ UNCHANGED <<cls, subscribed, cache, ha_writes, handled, updates,
                   device, resolved>>

\* a device is discovered, after the import, and resolved
Discover ==
    /\ Len(registry) = Len(Decorators)
    /\ ~resolved.done
    /\ \E d \in Devices :
           /\ device' = d
           /\ resolved' =
                  LET r == resolve(registry, d, 1)
                  IN  [done |-> TRUE, raised |-> r.raised,
                       entities |-> r.entities]
    /\ UNCHANGED <<cls, subscribed, cache, ha_writes, handled, updates,
                   registry>>

NextRegistry == Register \/ Discover

SpecRegistry == InitRegistry /\ [][NextRegistry]_vars

(***************************************************************************)
(* Properties of the sensor machine (Spec)                                 *)
(***************************************************************************)
\* what the sensor reports in the current state
IsOn == is_on(cls, cache)

\* the last step called async_set_state, with the attribute name it got
Delivered(attr_names) ==
    /\ Len(handled') = Len(handled) + 1
    /\ Last(handled') \in attr_names

\* the async_set_state calls so far that carried the sensor's SENSOR_ATTR
WatchedCalls == {i \in DOMAIN handled : handled[i] = SENSOR_ATTR(cls)}

\* C1, as the spec states it: an update delivered to async_set_state whose
\* attr_name is not SENSOR_ATTR is ignored: is_on is the same before and
\* after it, and no state is written to the host.
C1_OtherAttributeIgnored ==
    [][Delivered(AttrNames \ {SENSOR_ATTR(cls)})
           => /\ is_on(cls, cache') = is_on(cls, cache)
              /\ ha_writes' = ha_writes]_vars

\* C1, amended: an update delivered to async_set_state whose attr_name is
\* not SENSOR_ATTR leaves is_on the same before and after it, and one state
\* is written to the host all the same.
C1_OtherAttributeKeepsState ==
    [][Delivered(AttrNames \ {SENSOR_ATTR(cls)})
           => /\ is_on(cls, cache') = is_on(cls, cache)
              /\ Len(ha_writes') = Len(ha_writes) + 1
              /\ Last(ha_writes').state = is_on(cls, cache)]_vars

\* C1 witness: async_set_state has handled an update of another attribute.
C1_Witness ==
    /\ handled # <<>>
    /\ Last(handled) # SENSOR_ATTR(cls)
    /\ Len(ha_writes) = Len(handled)

\* C2, as the spec states it: the states written to the host are as many as
\* the updates delivered for the watched attribute.
C2_WritesEqualWatchedUpdates == Len(ha_writes) = Cardinality(WatchedCalls)

\* C2, amended: every update delivered to the subscribed sensor, for the
\* watched attribute or any other, writes exactly one state to the host,
\* also when the state equals the one written before; the states written
\* are as many as the updates delivered, hence at least as many as those
\* for the watched attribute.
C2_WritePerDeliveredUpdate ==
    /\ Len(ha_writes) = Len(handled)
    /\ Cardinality(WatchedCalls) <= Len(ha_writes)
    /\ subscribed => \A i \in DOMAIN ha_writes : ha_writes[i].state.raised = ""

\* C2 witness: two updates of the watched attribute in a row, the second
\* written although the state did not change.
C2_Witness ==
    \E i \in DOMAIN handled :
        /\ i + 1 \in DOMAIN handled
        /\ handled[i] = SENSOR_ATTR(cls)
        /\ handled[i + 1] = SENSOR_ATTR(cls)
        /\ ha_writes[i].state = ha_writes[i + 1].state

\* C3: is_on never raises; it is False while the cluster holds no value for
\* SENSOR_ATTR, and otherwise what the parser of the class makes of the
\* value: non-zero for the default parser, bit 0 or bit 1 set for IASZone.
C3_IsOnTotal ==
    LET raw == cache[SENSOR_ATTR(cls)]
    IN  /\ IsOn.raised = ""
        /\ IsOn.value \in BOOLEAN
        /\ raw = PyNone => IsOn.value = FALSE
        /\ raw # PyNone =>
               /\ IsOn = parse(cls, raw)
               /\ IsOn.value =
                      IF cls = "IASZone" THEN raw.int % 4 # 0 ELSE raw.int # 0

\* C3 witness: the value 0 is present and the sensor reports False.
C3_Witness ==
    /\ cache[SENSOR_ATTR(cls)] = PyInt(0)
    /\ IsOn = Return(FALSE)

\* C5: for every value v a cluster holds, IASZone.parse(v) is
\* BinarySensor.parse(v & 3): True iff bit 0 or bit 1 of v is set, the same
\* for any two values that agree on these bits; parse(0b100) is False and
\* parse(0b01) is True.
C5_AlarmBits ==
    /\ \A a \in AttrNames :
           cache[a] # PyNone =>
               LET v == cache[a].int
               IN  /\ IASZone_parse(cache[a]) =
                          Return(v % 2 = 1 \/ (v \div 2) % 2 = 1)
                   /\ IASZone_parse(cache[a]) = BinarySensor_parse(PyInt(v % 4))
                   /\ \A w \in RawValues :
                          w % 4 = v % 4 =>
                              IASZone_parse(PyInt(w)) = IASZone_parse(cache[a])
    /\ IASZone_parse(PyInt(4)) = Return(FALSE)
    /\ IASZone_parse(PyInt(1)) = Return(TRUE)

\* C5 witness: a zone sensor was handed 0b100 and reported False.
C5_Witness ==
    /\ cls = "IASZone"
    /\ cache["zone_status"] = PyInt(4)
    /\ ha_writes # <<>>
    /\ Last(handled) = "zone_status"
    /\ Last(ha_writes).state = Return(FALSE)

\* the zone-type table as the spec lists it
C6_Table(code) ==
    CASE code = PyInt(13) -> "motion"
      [] code = PyInt(21) -> "opening"
      [] code = PyInt(40) -> "smoke"
      [] code = PyInt(42) -> "moisture"
      [] code = PyInt(43) -> "gas"
      [] code = PyInt(45) -> "vibration"
      [] OTHER -> "None"

\* C6: the device class of a zone sensor is the table's entry for the
\* cluster's current zone_type, none for any other code and while zone_type
\* has no value; it is the same whatever zone_status holds.
C6_ZoneTypeDeviceClass ==
    cls = "IASZone" =>
        /\ device_class(cls, cache) = C6_Table(cache["zone_type"])
        /\ \A v \in RawValues :
               device_class(cls, [cache EXCEPT !["zone_status"] = PyInt(v)])
                   = device_class(cls, cache)
        /\ (ha_writes # <<>> /\ Last(handled) = "zone_type") =>
               Last(ha_writes).device_class = C6_Table(cache["zone_type"])

\* C6 witness: a zone sensor whose zone_type is a code outside the table
\* reported no device class, and one whose code is in the table reported it.
C6_Witness ==
    /\ cls = "IASZone"
    /\ Len(ha_writes) >= 2
    /\ cache["zone_type"] = PyInt(39321)
    /\ Last(ha_writes).device_class = "None"
    /\ \E i \in DOMAIN ha_writes : ha_writes[i].device_class = "moisture"

\* C9, as the spec states it: is_on changes only at a step that delivers an
\* update of SENSOR_ATTR to async_set_state.
C9_ChangesOnlyOnDelivery ==
    [][is_on(cls, cache') # is_on(cls, cache)
           => Delivered({SENSOR_ATTR(cls)})]_vars

\* C9, amended: is_on changes only at a step where the cluster stores a new
\* value for SENSOR_ATTR, delivered to the sensor or not; it never changes
\* when another attribute is stored or when the sensor subscribes.
C9_ChangesOnlyOnStore ==
    [][is_on(cls, cache') # is_on(cls, cache)
           => /\ updates' = updates + 1
              /\ cache'[SENSOR_ATTR(cls)] # cache[SENSOR_ATTR(cls)]
              /\ \A a \in AttrNames \ {SENSOR_ATTR(cls)} :
                     cache'[a] = cache[a]]_vars

\* C9 witness: the sensor reports True although no update was delivered.
C9_Witness ==
    /\ IsOn = Return(TRUE)
    /\ handled = <<>>
    /\ ~subscribed

\* C10: the sensor keeps no copy of the raw value: is_on is always computed
\* from the value the cluster holds now, so the state last written to the
\* host is the state of the value stored last; only a report to the cluster
\* changes the store, one attribute at a time.
C10_StateIsReadFromStore ==
    /\ [](LET raw == cache[SENSOR_ATTR(cls)]
          IN  /\ IsOn = Return(raw # PyNone /\ parse(cls, raw).value)
              /\ ha_writes # <<>> => Last(ha_writes).state = IsOn)
    /\ [][cache' # cache
              => /\ updates' = updates + 1
                 /\ \E a \in AttrNames :
                        \E v \in AttrValues(a) :
                            cache' = [cache EXCEPT ![a] = PyInt(v)]]_vars

\* C10 witness: two updates of the watched attribute were delivered and the
\* state written last differs from the one before.
C10_Witness ==
    /\ Len(ha_writes) >= 2
    /\ handled[Len(handled)] = SENSOR_ATTR(cls)
    /\ handled[Len(handled) - 1] = SENSOR_ATTR(cls)
    /\ ha_writes[Len(ha_writes) - 1].state # Last(ha_writes).state
    /\ Last(ha_writes).state = IsOn

(***************************************************************************)
(* Properties of the registry machine (SpecRegistry)                       *)
(***************************************************************************)
\* the clusters the discovered device exposes
Exposed == {device.clusters[k] : k \in DOMAIN device.clusters}

\* the places in the resolution that hold a descriptor of these classes
Places(entities) ==
    {i \in DOMAIN resolved.entities : resolved.entities[i].entity \in entities}

\* sub occurs in s
Contains(s, sub) ==
    \E i \in 1 .. Len(s) :
        i + Len(sub) - 1 <= Len(s) /\ SubSeq(s, i, i + Len(sub) - 1) = sub

\* the devices the filters of the two Motion rules describe
IsMotionDevice ==
    \/ /\ device.manufacturer = "Philips"
       /\ device.model \in {Str(SML001), Str(SML002)}
    \/ /\ device.manufacturer = "IKEA of Sweden"
       /\ device.model.type = "str"
       /\ Contains(device.model.chars, motion)

\* C4: a device that exposes on_off resolves to exactly one strict
\* descriptor for it: Motion when the device satisfies the filters of a
\* Motion rule, which are registered after Opening and tried before it, and
\* Opening for every other device; never both and never none.
C4_StrictOnOff ==
    resolved.done =>
        /\ resolved.raised = ""
        /\ Cardinality(Places({"Opening", "Motion"})) =
               IF "on_off" \in Exposed THEN 1 ELSE 0
        /\ \A i \in Places({"Opening", "Motion"}) :
               /\ resolved.entities[i].entity =
                      IF IsMotionDevice THEN "Motion" ELSE "Opening"
               /\ resolved.entities[i].device_class =
                      IF IsMotionDevice THEN "motion" ELSE "opening"
               /\ resolved.entities[i].attribute = "on_off"

\* C4 witness: an IKEA motion sensor that exposes on_off resolved to Motion.
C4_Witness ==
    /\ resolved.done
    /\ device.manufacturer = "IKEA of Sweden"
    /\ device.model = Str(TRADFRI_motion_sensor)
    /\ "on_off" \in Exposed
    /\ Places({"Motion"}) # {}

\* C7: the models predicate of the IKEA rule never raises: a missing or
\* non-string model does not match, and a string matches iff it contains
\* "motion", in this case of the letters; an IKEA device that exposes on_off
\* with a missing or non-string model resolves to Opening without an error.
C7_ModelPredicateTotal ==
    resolved.done =>
        /\ Motion_models(device.model).raised = ""
        /\ Motion_models(device.model).value =
               (device.model.type = "str" /\ Contains(device.model.chars, motion))
        /\ device.model = Str(TRADFRI_Motion_sensor) =>
               ~Motion_models(device.model).value
        /\ (/\ device.manufacturer = "IKEA of Sweden"
            /\ "on_off" \in Exposed
            /\ device.model.type # "str") =>
               /\ resolved.raised = ""
               /\ Places({"Opening"}) # {}
               /\ Places({"Motion"}) = {}

\* C7 witness: an IKEA device without a model that exposes on_off resolved
\* to Opening.
C7_Witness ==
    /\ resolved.done
    /\ device.manufacturer = "IKEA of Sweden"
    /\ device.model = NoModel
    /\ "on_off" \in Exposed
    /\ resolved.raised = ""
    /\ Places({"Opening"}) # {}

\* the multipass and config-diagnostic classes, and for each the devices its
\* decorator describes
C8_Classes ==
    {"Accelerometer", "Occupancy", "BinaryInput", "IASZone", "FrostLock",
     "ReplaceFilter", "AqaraPetFeederErrorDetected",
     "XiaomiPlugConsumerConnected", "AqaraThermostatWindowOpen",
     "AqaraThermostatValveAlarm", "AqaraThermostatCalibrated",
     "AqaraThermostatExternalSensor", "AqaraLinkageAlarmState"}
C8_Applies(c) ==
    CASE c = "Accelerometer" -> "accelerometer" \in Exposed
      [] c = "Occupancy" -> "occupancy" \in Exposed
      [] c = "BinaryInput" -> "binary_input" \in Exposed
      [] c = "IASZone" -> "ias_zone" \in Exposed
      [] c = "FrostLock" ->
             /\ "tuya_manufacturer" \in Exposed
             /\ device.manufacturer = "_TZE200_htnnfasr"
      [] c = "ReplaceFilter" -> "ikea_airpurifier" \in Exposed
      [] c = "AqaraPetFeederErrorDetected" ->
             /\ "opple_cluster" \in Exposed
             /\ device.model = Str(aqara_feeder_acn001)
      [] c = "XiaomiPlugConsumerConnected" ->
             /\ "opple_cluster" \in Exposed
             /\ device.model \in {Str(lumi_plug_mmeu01), Str(lumi_plug_maeu01)}
      [] c = "AqaraLinkageAlarmState" ->
             /\ "opple_cluster" \in Exposed
             /\ device.model = Str(lumi_sensor_smoke_acn03)
      [] OTHER ->
             /\ "opple_cluster" \in Exposed
             /\ device.model = Str(lumi_airrtc_agl001)

\* C8: every multipass or config-diagnostic rule under a cluster the device
\* exposes whose filters hold contributes exactly one descriptor, and a rule
\* whose filter fails contributes none; a device that exposes opple_cluster
\* alone with model lumi.airrtc.agl001 resolves to window_open, valve_alarm,
\* calibrated and sensor, the last two diagnostic; a device that exposes no
\* cluster with a registered rule resolves to the empty sequence.
C8_EveryMultiMatch ==
    resolved.done =>
        /\ resolved.raised = ""
        /\ \A c \in C8_Classes :
               Cardinality(Places({c})) = IF C8_Applies(c) THEN 1 ELSE 0
        /\ Len(resolved.entities) =
               Cardinality({c \in C8_Classes : C8_Applies(c)})
               + Cardinality(Places({"Opening", "Motion"}))
        /\ \A i \in DOMAIN resolved.entities :
               resolved.entities[i].entity_category =
                   IF resolved.entities[i].id_suffix \in {"calibrated", "sensor"}
                   THEN "diagnostic" ELSE "None"
        /\ (Exposed = {"opple_cluster"}
            /\ device.model = Str(lumi_airrtc_agl001)) =>
               /\ Len(resolved.entities) = 4
               /\ {resolved.entities[i].id_suffix :
                       i \in DOMAIN resolved.entities}
                      = {"window_open", "valve_alarm", "calibrated", "sensor"}
        /\ Exposed \subseteq {"basic"} => resolved.entities = <<>>

\* C8 witness: the Aqara thermostat resolved to its four descriptors.
C8_Witness ==
    /\ resolved.done
    /\ Exposed = {"opple_cluster"}
    /\ device.model = Str(lumi_airrtc_agl001)
    /\ Len(resolved.entities) = 4
    /\ Cardinality(Places({"AqaraThermostatCalibrated",
                           "AqaraThermostatExternalSensor"})) = 2

====
